---- MODULE Spec2Model ----
(***************************************************************************)
(* Model of codes/surface_code_generator.py: the generation of the         *)
(* parity-check matrices of rotated planar surface codes and their         *)
(* serialisation to pcm_matrices/distance_<d>_surface_code.csv.            *)
(*                                                                         *)
(* A matrix is a sequence of rows, a row a sequence of integers.  A text   *)
(* (a path, the content of a file) is a sequence of one-character strings. *)
(***************************************************************************)
EXTENDS Integers, Sequences, FiniteSets, TLC

(***************************************************************************)
(* Generic helpers on sequences.                                           *)
(***************************************************************************)
RECURSIVE FlattenRange(_, _, _)
\* the concatenation ss[lo] \o ... \o ss[hi] (empty when lo > hi)
FlattenRange(ss, lo, hi) ==
    IF lo > hi THEN << >>
    ELSE IF lo = hi THEN ss[lo]
    ELSE LET mid == (lo + hi) \div 2
         IN FlattenRange(ss, lo, mid) \o FlattenRange(ss, mid + 1, hi)

Flatten(ss) == FlattenRange(ss, 1, Len(ss))

Range(s) == {s[k] : k \in DOMAIN s}

(***************************************************************************)
(* Python's decimal formatting of an int, as done by "%d" % v and by the   *)
(* replacement field {d} of an f-string.                                   *)
(***************************************************************************)
DigitChar(k) ==
    CASE k = 0 -> "0" [] k = 1 -> "1" [] k = 2 -> "2" [] k = 3 -> "3"
      [] k = 4 -> "4" [] k = 5 -> "5" [] k = 6 -> "6" [] k = 7 -> "7"
      [] k = 8 -> "8" [] k = 9 -> "9"

RECURSIVE NatToText(_)
NatToText(n) ==
    IF n < 10 THEN <<DigitChar(n)>>
    ELSE Append(NatToText(n \div 10), DigitChar(n % 10))

FormatInt(v) == IF v < 0 THEN <<"-">> \o NatToText(-v) ELSE NatToText(v)

\* the same digits as a str
RECURSIVE NatToStr(_)
NatToStr(n) ==
    IF n < 10 THEN DigitChar(n)
    ELSE NatToStr(n \div 10) \o DigitChar(n % 10)

IntToStr(v) == IF v < 0 THEN "-" \o NatToStr(-v) ELSE NatToStr(v)

RECURSIVE JoinRange(_, _, _)
\* the str made of the characters cs[lo], ..., cs[hi]
JoinRange(cs, lo, hi) ==
    IF lo > hi THEN ""
    ELSE IF lo = hi THEN cs[lo]
    ELSE LET mid == (lo + hi) \div 2
         IN JoinRange(cs, lo, mid) \o JoinRange(cs, mid + 1, hi)

Join(cs) == JoinRange(cs, 1, Len(cs))

(***************************************************************************)
(* qecsim.models.rotatedplanar.RotatedPlanarCode, the library class that   *)
(* line 5 instantiates and whose stabilizers property line 6 reads.        *)
(* Sites are indexed (x, y) from the lower left qubit; the plaquette       *)
(* (x, y) has its lower left corner on site (x, y).                        *)
(***************************************************************************)
\* RotatedPlanarCode.MIN_SIZE
MIN_SIZE == <<3, 3>>

\* RotatedPlanarCode.__init__: the size check; a smaller size raises ValueError
ValidSize(rows, columns) == rows >= MIN_SIZE[1] /\ columns >= MIN_SIZE[2]

\* RotatedPlanarCode.__init__: the object built when the check passes
RotatedPlanarCode(rows, columns) == [size |-> <<rows, columns>>]

\* RotatedPlanarCode.n_k_d[0]: the number of physical qubits
n_qubits(code) == code.size[1] * code.size[2]

\* RotatedPlanarCode.site_bounds: <<max_x, max_y>>
site_bounds(code) == <<code.size[2] - 1, code.size[1] - 1>>

is_x_plaquette(index) == (index[1] + index[2]) % 2 = 1

is_z_plaquette(index) == ~is_x_plaquette(index)

is_in_site_bounds(code, index) ==
    /\ 0 <= index[1] /\ index[1] <= site_bounds(code)[1]
    /\ 0 <= index[2] /\ index[2] <= site_bounds(code)[2]

is_in_plaquette_bounds(code, index) ==
    /\ -1 <= index[1] /\ index[1] <= site_bounds(code)[1]
    /\ -1 <= index[2] /\ index[2] <= site_bounds(code)[2]

\* a plaquette of the boundary that is not part of the lattice
is_virtual_plaquette(code, index) ==
    \/ is_z_plaquette(index)
         /\ (index[1] = -1 \/ index[1] = site_bounds(code)[1])
    \/ is_x_plaquette(index)
         /\ (index[2] = -1 \/ index[2] = site_bounds(code)[2])

\* RotatedPlanarCode._plaquette_indices: Z-type first, then X-type, each by
\* increasing y, then x
plaquette_indices(code) ==
    LET w == site_bounds(code)[1] + 3
        h == site_bounds(code)[2] + 3
        scan == [k \in 1..(w * h) |-> <<((k - 1) % w) - 1, ((k - 1) \div w) - 1>>]
        real(ix) == is_in_plaquette_bounds(code, ix) /\ ~is_virtual_plaquette(code, ix)
        isZ(ix) == real(ix) /\ is_z_plaquette(ix)
        isX(ix) == real(ix) /\ is_x_plaquette(ix)
    IN SelectSeq(scan, isZ) \o SelectSeq(scan, isX)

\* RotatedPlanarPauli.plaquette(index).to_bsf(): the binary symplectic row
\* (X part, then Z part) of the plaquette operator; the site (x, y) is
\* stored at x + y * columns
plaquette_bsf(code, index) ==
    LET n == n_qubits(code)
        cols == code.size[2]
        corners == {<<index[1] + dx, index[2] + dy>> : dx \in {0, 1}, dy \in {0, 1}}
        flat == {s[1] + s[2] * cols : s \in {c \in corners : is_in_site_bounds(code, c)}}
    IN [j \in 1..(2 * n) |->
          IF is_x_plaquette(index)
          THEN (IF j <= n /\ (j - 1) \in flat THEN 1 ELSE 0)
          ELSE (IF j > n /\ (j - n - 1) \in flat THEN 1 ELSE 0)]

\* RotatedPlanarCode.stabilizers: one row per plaquette
stabilizers(code) ==
    LET ps == plaquette_indices(code)
    IN [r \in 1..Len(ps) |-> plaquette_bsf(code, ps[r])]

(***************************************************************************)
(* generate_surface_code_pcm (lines 4-6).                                  *)
(***************************************************************************)
\* variant: the distance taken for one less than the size of the lattice
CodeArgsPlusOne(distance) == <<distance + 1, distance + 1>>

\* variant: a lattice with one column more than rows
CodeArgsRect(distance) == <<distance, distance + 1>>

\* line 5: the arguments RotatedPlanarCode is called with
CodeArgs(distance) == <<distance, distance>>

\* lines 4-6 as a function of the distance, when the constructor accepts it
generate_surface_code_pcm(distance) ==
    stabilizers(RotatedPlanarCode(CodeArgs(distance)[1], CodeArgs(distance)[2]))

(***************************************************************************)
(* np.savetxt(path, X, delimiter=",", fmt="%d") (line 12): the file is     *)
(* opened for writing, then each row is written as                         *)
(* delimiter.join(["%d"] * ncol) % tuple(row) + newline.                   *)
(***************************************************************************)
\* variant: savetxt's default delimiter
delimiter_space == " "

delimiter == ","

\* the default of savetxt's newline parameter
newline == "\n"

\* variant: fmt="%.1f"
fmt_float(v) == FormatInt(v) \o <<".", "0">>

\* fmt="%d" applied to one entry
fmt(v) == FormatInt(v)

\* the characters of one row's line
RowChars(row) ==
    Flatten([c \in 1..Len(row) |->
               IF c = 1 THEN fmt(row[c]) ELSE <<delimiter>> \o fmt(row[c])])
      \o <<newline>>

\* the characters savetxt writes for the array X
savetxt_chars(X) == Flatten([r \in 1..Len(X) |-> RowChars(X[r])])

\* the str written by the whole loop over X
savetxt_str(X) == Join(savetxt_chars(X))

(***************************************************************************)
(* The driver (lines 8-12).                                                *)
(***************************************************************************)
\* variant: range(3, 15, 2), which stops before 15
DistancesRange == <<3, 5, 7, 9, 11, 13>>

\* variant: the list out of order
DistancesUnsorted == <<3, 5, 9, 7, 11, 13, 15>>

\* line 9: the distances of the loop
Distances == <<3, 5, 7, 9, 11, 13, 15>>

\* variant: the path without the replacement field
OutputPathFixed(d) == "pcm_matrices/distance_d_surface_code.csv"

\* line 12: the f-string of the output path
OutputPath(d) == "pcm_matrices/distance_" \o IntToStr(d) \o "_surface_code.csv"

(***************************************************************************)
(* The arrays and texts of the driver's own distances, computed once.      *)
(* ArrayOf and TextOf look a value up there and compute it otherwise.      *)
(***************************************************************************)
TableSizes == [k \in 1..Len(Distances) |-> CodeArgs(Distances[k])]

ArrayTable ==
    [k \in 1..Len(TableSizes) |->
        stabilizers(RotatedPlanarCode(TableSizes[k][1], TableSizes[k][2]))]

TextTable == [k \in 1..Len(TableSizes) |-> savetxt_str(ArrayTable[k])]

TableIndex(size) == CHOOSE k \in DOMAIN TableSizes : TableSizes[k] = size

\* myCode.stabilizers, the array of the code object
ArrayOf(code) ==
    IF code.size \in Range(TableSizes) THEN ArrayTable[TableIndex(code.size)]
    ELSE stabilizers(code)

\* the str savetxt writes for the array of the code object
TextOf(code) ==
    IF code.size \in Range(TableSizes) THEN TextTable[TableIndex(code.size)]
    ELSE savetxt_str(stabilizers(code))

(***************************************************************************)
(* Files.  The content of a file is recorded as the list of the writes     *)
(* made to it since it was created or truncated: a write of savetxt is     *)
(* [array |-> the code object whose array is written, chars |-> the number *)
(* of characters of its text that reached the file], a content that was    *)
(* there before the script ran is [text |-> str].  The file object is a    *)
(* buffered text file: the rows go to the buffer and the buffer goes to    *)
(* the file when it is full and at the close, so that what reached the     *)
(* file at a failure is a prefix of the text which may end inside a row.   *)
(* FileText gives the str the file holds.                                  *)
(***************************************************************************)
ChunkText(c) ==
    IF "text" \in DOMAIN c THEN c.text
    ELSE IF c.chars = Len(TextOf(c.array)) THEN TextOf(c.array)
    ELSE SubSeq(TextOf(c.array), 1, c.chars)

RECURSIVE ChunksText(_, _)
ChunksText(chunks, n) ==
    IF n = 0 THEN ""
    ELSE IF n = 1 THEN ChunkText(chunks[1])
    ELSE ChunksText(chunks, n - 1) \o ChunkText(chunks[n])

FileText(chunks) == ChunksText(chunks, Len(chunks))

\* variant: open(fname, "at"), which keeps what the file holds
open_at(files, p) ==
    [q \in (DOMAIN files) \cup {p} |-> IF q \in DOMAIN files THEN files[q] ELSE << >>]

\* open(fname, "wt"): the file is created, or truncated when it exists
open_wt(files, p) ==
    [q \in (DOMAIN files) \cup {p} |-> IF q = p THEN << >> ELSE files[q]]

\* fh.write(v) for the rows of the array of code, and the close: the first
\* n characters of the text are appended at the end of the open file
fh_write(files, p, code, n) ==
    [files EXCEPT ![p] = Append(@, [array |-> code, chars |-> n])]

(***************************************************************************)
(* Bounds of the model.                                                    *)
(***************************************************************************)
\* the number of times the script is run in succession
MaxRuns == 2

\* an output that fails has put in the file at most MaxPartialRows whole
\* rows and then at most MaxPartialChars characters of the next row
MaxPartialRows == 1

MaxPartialChars == 2

Min(x, y) == IF x <= y THEN x ELSE y

\* the number of characters of the first k rows of the text of X
RECURSIVE RowsLen(_, _)
RowsLen(X, k) == IF k = 0 THEN 0 ELSE RowsLen(X, k - 1) + Len(RowChars(X[k]))

\* the same for the arrays of the driver's distances, computed once
RowsLenTable ==
    [k \in 1..Len(TableSizes) |->
        [r \in 0..Min(MaxPartialRows, Len(ArrayTable[k])) |->
            RowsLen(ArrayTable[k], r)]]

RowsLenOf(code, r) ==
    IF code.size \in Range(TableSizes) THEN RowsLenTable[TableIndex(code.size)][r]
    ELSE RowsLen(stabilizers(code), r)

\* the distances of a single request are -RequestRange .. RequestRange + 2
RequestRange == 3

(***************************************************************************)
(* State.  A task runs the loop body (lines 10-12) over its own list of    *)
(* distances: the script is the single task 1 with the list of line 9.     *)
(***************************************************************************)
VARIABLES
    dirExists,    \* whether the directory pcm_matrices exists
    fs,           \* the files of the directory: path |-> content (see Files)
    todo,         \* task |-> the distances it iterates over
    i,            \* task |-> index in todo of the current iteration
    pc,           \* task |-> "construct", "extract", "open", "write", "done", "aborted"
    myCode,       \* task |-> the RotatedPlanarCode object of line 5, or None
    a,            \* task |-> the object whose stabilizers array a refers to, or None
    fh,           \* task |-> the path of the file savetxt holds open, or None
    err,          \* task |-> the exception that ended the task, or None
    events,       \* task |-> what the task did in this run, in order
    run,          \* the number of the current run
    fsAtStart,    \* fs when the current run started
    dirAtStart,   \* dirExists when the current run started
    prevOutcome,  \* how the previous run ended: "none", "done", "aborted"
    mat,          \* serialisation alone: the matrix given to savetxt
    out,          \* serialisation alone: the characters savetxt wrote
    back,         \* serialisation alone: the matrix read back from out
    cpc           \* serialisation alone: "idle", "save", "load", "done"

driverVars == <<dirExists, fs, todo, i, pc, myCode, a, fh, err, events, run,
                fsAtStart, dirAtStart, prevOutcome>>

csvVars == <<mat, out, back, cpc>>

vars == <<driverVars, csvVars>>

None == "None"

NoFiles == [q \in {} |-> << >>]

\* a file of the directory that is none of the script's outputs
OtherPath == "pcm_matrices/README.txt"

OtherFile == [q \in {OtherPath} |-> <<[text |-> "parity-check matrices\n"]>>]

Tasks == DOMAIN todo

\* the distance of task t's current iteration
Cur(t) == todo[t][i[t]]

Terminal(t) == pc[t] \in {"done", "aborted"}

\* the state of the tasks when a run starts
StartTasks(lists) ==
    /\ todo = lists
    /\ i = [t \in DOMAIN lists |-> 1]
    /\ pc = [t \in DOMAIN lists |-> IF Len(lists[t]) = 0 THEN "done" ELSE "construct"]
    /\ myCode = [t \in DOMAIN lists |-> None]
    /\ a = [t \in DOMAIN lists |-> None]
    /\ fh = [t \in DOMAIN lists |-> None]
    /\ err = [t \in DOMAIN lists |-> None]
    /\ events = [t \in DOMAIN lists |-> << >>]

\* the first run starts
StartRun ==
    /\ run = 1
    /\ fsAtStart = fs
    /\ dirAtStart = dirExists
    /\ prevOutcome = "none"

CsvIdle ==
    /\ mat = << >>
    /\ out = << >>
    /\ back = << >>
    /\ cpc = "idle"

\* the script started in a working directory with or without pcm_matrices
Init ==
    /\ dirExists \in BOOLEAN
    /\ fs \in (IF dirExists THEN {NoFiles, OtherFile} ELSE {NoFiles})
    /\ StartTasks([t \in {1} |-> Distances])
    /\ StartRun
    /\ CsvIdle

Abort(t, e) ==
    /\ pc' = [pc EXCEPT ![t] = "aborted"]
    /\ err' = [err EXCEPT ![t] = e]

\* line 5: myCode = RotatedPlanarCode(distance, distance)
Construct(t) ==
    /\ pc[t] = "construct"
    /\ LET args == CodeArgs(Cur(t))
       IN IF ValidSize(args[1], args[2])
          THEN /\ myCode' = [myCode EXCEPT ![t] = RotatedPlanarCode(args[1], args[2])]
               /\ pc' = [pc EXCEPT ![t] = "extract"]
               /\ events' = [events EXCEPT ![t] = Append(@, <<"construct", Cur(t)>>)]
               /\ err' = err
          ELSE /\ Abort(t, "ValueError")
               /\ UNCHANGED <<myCode, events>>
    /\ UNCHANGED <<dirExists, fs, todo, i, a, fh, run, fsAtStart, dirAtStart, prevOutcome, csvVars>>

\* line 6 and the assignment of line 10: a = myCode.stabilizers
Extract(t) ==
    /\ pc[t] = "extract"
    /\ a' = [a EXCEPT ![t] = myCode[t]]
    /\ myCode' = [myCode EXCEPT ![t] = None]
    /\ pc' = [pc EXCEPT ![t] = "open"]
    /\ events' = [events EXCEPT ![t] = Append(@, <<"extract", Cur(t)>>)]
    /\ UNCHANGED <<dirExists, fs, todo, i, fh, err, run, fsAtStart, dirAtStart, prevOutcome, csvVars>>

\* variant: os.makedirs("pcm_matrices", exist_ok=True) before the open
OpenMakedirs(t) ==
    /\ pc[t] = "open"
    /\ dirExists' = TRUE
    /\ fs' = open_wt(fs, OutputPath(Cur(t)))
    /\ fh' = [fh EXCEPT ![t] = OutputPath(Cur(t))]
    /\ pc' = [pc EXCEPT ![t] = "write"]
    /\ events' = [events EXCEPT ![t] = Append(@, <<"open", OutputPath(Cur(t))>>)]
    /\ UNCHANGED <<todo, i, myCode, a, err, run, fsAtStart, dirAtStart, prevOutcome, csvVars>>

\* line 12, savetxt opening the file: FileNotFoundError without the directory
Open(t) ==
    /\ pc[t] = "open"
    /\ IF dirExists
       THEN /\ fs' = open_wt(fs, OutputPath(Cur(t)))
            /\ fh' = [fh EXCEPT ![t] = OutputPath(Cur(t))]
            /\ pc' = [pc EXCEPT ![t] = "write"]
            /\ events' = [events EXCEPT ![t] = Append(@, <<"open", OutputPath(Cur(t))>>)]
            /\ err' = err
       ELSE /\ Abort(t, "FileNotFoundError")
            /\ UNCHANGED <<fs, fh, events>>
    /\ UNCHANGED <<dirExists, todo, i, myCode, a, run, fsAtStart, dirAtStart, prevOutcome, csvVars>>

\* variant: the loop body in try/except, the failed distance skipped
OpenFailContinue(t) ==
    /\ pc[t] = "open"
    /\ dirExists
    /\ err' = [err EXCEPT ![t] = "PermissionError"]
    /\ i' = [i EXCEPT ![t] = @ + 1]
    /\ pc' = [pc EXCEPT ![t] = IF i[t] = Len(todo[t]) THEN "done" ELSE "construct"]
    /\ UNCHANGED <<dirExists, fs, todo, myCode, a, fh, events, run, fsAtStart,
                   dirAtStart, prevOutcome, csvVars>>

\* line 12, the open refused by the file system (permissions)
OpenFail(t) ==
    /\ pc[t] = "open"
    /\ dirExists
    /\ Abort(t, "PermissionError")
    /\ UNCHANGED <<dirExists, fs, todo, i, myCode, a, fh, events, run, fsAtStart,
                   dirAtStart, prevOutcome, csvVars>>

\* line 12, savetxt writing every row and closing the file; then the next
\* iteration of the loop of line 9
Write(t) ==
    /\ pc[t] = "write"
    /\ fs' = fh_write(fs, fh[t], a[t], Len(TextOf(a[t])))
    /\ fh' = [fh EXCEPT ![t] = None]
    /\ events' = [events EXCEPT ![t] = Append(@, <<"write", fh[t]>>)]
    /\ i' = [i EXCEPT ![t] = @ + 1]
    /\ pc' = [pc EXCEPT ![t] = IF i[t] = Len(todo[t]) THEN "done" ELSE "construct"]
    /\ UNCHANGED <<dirExists, todo, myCode, a, err, run, fsAtStart, dirAtStart, prevOutcome, csvVars>>

\* line 12, the output failing (disk full, file size limit, I/O fault) in a
\* flush of the buffer, during a write or at the close: the first n
\* characters of the text, not all of them, are in the file (k whole rows
\* and c characters of the next) and the OSError propagates
WriteFail(t) ==
    /\ pc[t] = "write"
    /\ \E k \in 0..Min(MaxPartialRows, Len(ArrayOf(a[t])) - 1),
          c \in 0..MaxPartialChars :
          LET n == RowsLenOf(a[t], k) + c
          IN /\ n < Len(TextOf(a[t]))
             /\ fs' = fh_write(fs, fh[t], a[t], n)
    /\ fh' = [fh EXCEPT ![t] = None]
    /\ Abort(t, "OSError")
    /\ UNCHANGED <<dirExists, todo, i, myCode, a, events, run, fsAtStart, dirAtStart,
                   prevOutcome, csvVars>>

\* the script is run again once the previous run has ended
Rerun ==
    /\ \A t \in Tasks : Terminal(t)
    /\ run < MaxRuns
    /\ run' = run + 1
    /\ prevOutcome' = IF \A t \in Tasks : pc[t] = "done" THEN "done" ELSE "aborted"
    /\ fsAtStart' = fs
    /\ dirAtStart' = dirExists
    /\ i' = [t \in Tasks |-> 1]
    /\ pc' = [t \in Tasks |-> IF Len(todo[t]) = 0 THEN "done" ELSE "construct"]
    /\ myCode' = [t \in Tasks |-> None]
    /\ a' = [t \in Tasks |-> None]
    /\ fh' = [t \in Tasks |-> None]
    /\ err' = [t \in Tasks |-> None]
    /\ events' = [t \in Tasks |-> << >>]
    /\ UNCHANGED <<dirExists, fs, todo, csvVars>>

Next ==
    \/ \E t \in Tasks : Construct(t)
    \/ \E t \in Tasks : Extract(t)
    \/ \E t \in Tasks : Open(t)
    \/ \E t \in Tasks : OpenFail(t)
    \/ \E t \in Tasks : Write(t)
    \/ \E t \in Tasks : WriteFail(t)
    \/ Rerun

Spec == Init /\ [][Next]_vars

(***************************************************************************)
(* A single request: lines 10-12 for one distance, valid or not, in a      *)
(* directory that may already hold a file at the request's path.           *)
(***************************************************************************)
RequestDistances == (0 - RequestRange)..(RequestRange + 2)

StaleFile(d) == [q \in {OutputPath(d)} |-> <<[text |-> "stale\n"]>>]

InitRequest ==
    /\ dirExists \in BOOLEAN
    /\ \E d \in RequestDistances :
          /\ fs \in (IF dirExists THEN {NoFiles, StaleFile(d)} ELSE {NoFiles})
          /\ StartTasks([t \in {1} |-> <<d>>])
    /\ StartRun
    /\ CsvIdle

SpecRequest == InitRequest /\ [][Next]_vars

(***************************************************************************)
(* The iterations as concurrent tasks, one per distance of line 9, with    *)
(* no synchronisation between them.                                        *)
(***************************************************************************)
RECURSIVE DriverResultUpTo(_, _)
\* the files after the first n iterations of the sequential loop
DriverResultUpTo(files, n) ==
    IF n = 0 THEN files
    ELSE LET d == Distances[n]
             code == RotatedPlanarCode(CodeArgs(d)[1], CodeArgs(d)[2])
         IN fh_write(open_wt(DriverResultUpTo(files, n - 1), OutputPath(d)),
                     OutputPath(d), code, Len(TextOf(code)))

\* the files a complete run of the sequential loop leaves
DriverResult(files) == DriverResultUpTo(files, Len(Distances))

InitPar ==
    /\ dirExists = TRUE
    /\ fs \in {NoFiles, OtherFile}
    /\ StartTasks([t \in 1..Len(Distances) |-> <<Distances[t]>>])
    /\ StartRun
    /\ CsvIdle

NextPar ==
    \/ \E t \in Tasks : Construct(t)
    \/ \E t \in Tasks : Extract(t)
    \/ \E t \in Tasks : Open(t)
    \/ \E t \in Tasks : Write(t)

SpecPar == InitPar /\ [][NextPar]_vars

(***************************************************************************)
(* Serialisation alone: savetxt applied to a matrix of non-negative        *)
(* integers, and the written text read back.                               *)
(***************************************************************************)
\* the matrices have at most MaxRows rows and MaxCols columns
MaxRows == 2

MaxCols == 2

\* entries of one digit, and of several digits with a zero among them
EntryValues == {0, 7, 120}

Matrices ==
    UNION {[1..r -> [1..c -> EntryValues]] : r \in 1..MaxRows, c \in 1..MaxCols}
      \cup {generate_surface_code_pcm(MIN_SIZE[1])}

\* the value of a decimal digit, -1 for any other character
DigitValue(ch) ==
    CASE ch = "0" -> 0 [] ch = "1" -> 1 [] ch = "2" -> 2 [] ch = "3" -> 3
      [] ch = "4" -> 4 [] ch = "5" -> 5 [] ch = "6" -> 6 [] ch = "7" -> 7
      [] ch = "8" -> 8 [] ch = "9" -> 9 [] OTHER -> -1

RECURSIVE SplitOn(_, _)
\* the segments of cs between the occurrences of sep
SplitOn(cs, sep) ==
    IF \A k \in DOMAIN cs : cs[k] # sep THEN <<cs>>
    ELSE LET k == CHOOSE j \in DOMAIN cs :
                     cs[j] = sep /\ \A h \in 1..(j - 1) : cs[h] # sep
         IN <<SubSeq(cs, 1, k - 1)>> \o SplitOn(SubSeq(cs, k + 1, Len(cs)), sep)

\* the lines of a text: what ends with a newline, and what follows the last one
Lines(cs) ==
    LET segs == SplitOn(cs, "\n")
    IN IF segs[Len(segs)] = << >> THEN SubSeq(segs, 1, Len(segs) - 1) ELSE segs

RECURSIVE ParseNat(_, _)
\* the number the first n characters of field write in decimal, -1 when
\* they are not digits
ParseNat(field, n) ==
    IF n = 0 THEN 0
    ELSE LET hi == ParseNat(field, n - 1)
             lo == DigitValue(field[n])
         IN IF hi < 0 \/ lo < 0 THEN -1 ELSE 10 * hi + lo

ParseInt(field) == IF field = << >> THEN -1 ELSE ParseNat(field, Len(field))

\* the matrix a text holds: one row per line, one integer per comma-separated field
ParseCsv(cs) ==
    LET ls == Lines(cs)
    IN [r \in 1..Len(ls) |->
          LET fields == SplitOn(ls[r], ",")
          IN [c \in 1..Len(fields) |-> ParseInt(fields[c])]]

InitCsv ==
    /\ dirExists = TRUE
    /\ fs = NoFiles
    /\ StartTasks([t \in {} |-> << >>])
    /\ StartRun
    /\ mat \in Matrices
    /\ out = << >>
    /\ back = << >>
    /\ cpc = "save"

\* np.savetxt(path, mat, delimiter=",", fmt="%d")
CsvSave ==
    /\ cpc = "save"
    /\ out' = savetxt_chars(mat)
    /\ cpc' = "load"
    /\ UNCHANGED <<driverVars, mat, back>>

\* the written file parsed back into a matrix
CsvLoad ==
    /\ cpc = "load"
    /\ back' = ParseCsv(out)
    /\ cpc' = "done"
    /\ UNCHANGED <<driverVars, mat, out>>

NextCsv == CsvSave \/ CsvLoad

SpecCsv == InitCsv /\ [][NextCsv]_vars

(***************************************************************************)
(* Helpers of the properties.                                              *)
(***************************************************************************)
\* the seven output paths, in the order of the loop
ExpectedPathSeq ==
    << "pcm_matrices/distance_3_surface_code.csv",
       "pcm_matrices/distance_5_surface_code.csv",
       "pcm_matrices/distance_7_surface_code.csv",
       "pcm_matrices/distance_9_surface_code.csv",
       "pcm_matrices/distance_11_surface_code.csv",
       "pcm_matrices/distance_13_surface_code.csv",
       "pcm_matrices/distance_15_surface_code.csv" >>

ExpectedPaths == Range(ExpectedPathSeq)

ExpectedOrder == <<3, 5, 7, 9, 11, 13, 15>>

\* what a complete run does, in order
ExpectedEvents ==
    Flatten([k \in 1..Len(ExpectedOrder) |->
               << <<"construct", ExpectedOrder[k]>>,
                  <<"extract", ExpectedOrder[k]>>,
                  <<"open", ExpectedPathSeq[k]>>,
                  <<"write", ExpectedPathSeq[k]>> >>])

IsPrefix(s, t) == Len(s) <= Len(t) /\ s = SubSeq(t, 1, Len(s))

\* the paths of task t's events of one kind, in order
EventPaths(t, kind) ==
    LET es == SelectSeq(events[t], LAMBDA e : e[1] = kind)
    IN [k \in 1..Len(es) |-> es[k][2]]

\* the file at path p is as it was when the run started
Untouched(p) ==
    /\ p \in DOMAIN fs <=> p \in DOMAIN fsAtStart
    /\ p \in DOMAIN fs => fs[p] = fsAtStart[p]

AllDone == \A t \in Tasks : pc[t] = "done"

(***************************************************************************)
(* C1: when the driver completes, the files it opened for writing are      *)
(* exactly the seven paths pcm_matrices/distance_<d>_surface_code.csv for  *)
(* d in 3, 5, ..., 15, each opened and written exactly once in the run,    *)
(* and no other file of the directory was created, removed or changed.     *)
(***************************************************************************)
C1_ExactlySevenFiles ==
    \A t \in Tasks :
       pc[t] = "done" =>
          /\ Range(EventPaths(t, "open")) = ExpectedPaths
          /\ Len(EventPaths(t, "open")) = 7
          /\ Range(EventPaths(t, "write")) = ExpectedPaths
          /\ Len(EventPaths(t, "write")) = 7
          /\ DOMAIN fs = (DOMAIN fsAtStart) \cup ExpectedPaths
          /\ \A q \in (DOMAIN fs) \ ExpectedPaths : Untouched(q)

\* a second run completed in a directory that holds another file
C1_Witness ==
    /\ AllDone
    /\ run = 2
    /\ OtherPath \in DOMAIN fs
    /\ Cardinality(DOMAIN fs) = 8

(***************************************************************************)
(* C2: what the driver has done is at every moment a prefix of             *)
(* construct 3, extract 3, open and write the file of 3, construct 5, ..., *)
(* write the file of 15: the distances are processed in ascending order,   *)
(* and the file of d is written only after the code of d was constructed   *)
(* and its matrix extracted, and after the files of all smaller distances. *)
(***************************************************************************)
C2_StrictOrder == \A t \in Tasks : IsPrefix(events[t], ExpectedEvents)

\* the file of 15 is open, everything else has been done
C2_Witness ==
    \E t \in Tasks :
       /\ pc[t] = "write"
       /\ Cur(t) = 15
       /\ Len(events[t]) = 27

(***************************************************************************)
(* C3, as claimed: when the run has aborted at distance d, neither the     *)
(* file of d nor the file of a later distance was written in the run, and  *)
(* the files of the smaller distances are complete.                        *)
(***************************************************************************)
FilesBeforeComplete(t) ==
    \A k \in 1..(i[t] - 1) :
       /\ OutputPath(todo[t][k]) \in DOMAIN fs
       /\ FileText(fs[OutputPath(todo[t][k])])
            = TextOf(RotatedPlanarCode(todo[t][k], todo[t][k]))

FilesAfterUntouched(t) ==
    \A k \in (i[t] + 1)..Len(todo[t]) : Untouched(OutputPath(todo[t][k]))

C3_Original ==
    \A t \in Tasks :
       pc[t] = "aborted" =>
          /\ Untouched(OutputPath(Cur(t)))
          /\ FilesAfterUntouched(t)
          /\ FilesBeforeComplete(t)

(***************************************************************************)
(* C3, amended: a task that failed at distance d has aborted; no file of a *)
(* later distance was written in the run and the files of the smaller      *)
(* distances are complete; the file of d is untouched when the open        *)
(* failed, and when the output failed after the open it exists and holds   *)
(* a beginning of the text of the matrix, shorter than the text.           *)
(***************************************************************************)
C3_FailFast ==
    \A t \in Tasks :
       err[t] # None =>
          /\ pc[t] = "aborted"
          /\ FilesAfterUntouched(t)
          /\ FilesBeforeComplete(t)
          /\ err[t] # "OSError" => Untouched(OutputPath(Cur(t)))
          /\ err[t] = "OSError" =>
                /\ OutputPath(Cur(t)) \in DOMAIN fs
                /\ LET held == FileText(fs[OutputPath(Cur(t))])
                   IN /\ Len(held) < Len(TextOf(a[t]))
                      /\ held = SubSeq(TextOf(a[t]), 1, Len(held))

\* the second run fails while writing the file of 7: the files of 3 and 5
\* are rewritten, the file of 7 is cut inside its second row, the later
\* ones are those of the first run
C3_Witness ==
    \E t \in Tasks :
       /\ pc[t] = "aborted"
       /\ err[t] = "OSError"
       /\ Cur(t) = 7
       /\ prevOutcome = "done"
       /\ Len(FileText(fs[OutputPath(7)])) = 2 * 2 * 7 * 7 + 2

(***************************************************************************)
(* C4, as claimed: a request for an invalid distance, one that is not an   *)
(* odd integer of 3 or more (0, 2, a negative integer, an even integer),   *)
(* ends with the constructor's error, before any file is opened: the files *)
(* are those of the start of the request.                                  *)
(***************************************************************************)
InvalidDistance(d) == d < 3 \/ d % 2 = 0

C5_Idempotent ==
    (AllDone /\ prevOutcome = "done") =>
       /\ DOMAIN fs = DOMAIN fsAtStart
       /\ \A q \in DOMAIN fs : FileText(fs[q]) = FileText(fsAtStart[q])

\* the second of two complete runs has ended, all seven files rewritten
C5_Witness ==
    /\ AllDone
    /\ prevOutcome = "done"
    /\ run = 2
    /\ ExpectedPaths \subseteq DOMAIN fsAtStart
    /\ \A t \in Tasks : Len(EventPaths(t, "write")) = 7

(***************************************************************************)
(* C6: the matrix parsed back from the text savetxt wrote is the matrix    *)
(* that was written: same rows, same columns, same entries.                *)
(***************************************************************************)
C6_RoundTrip == cpc = "done" => back = mat

\* a 2 x 2 matrix with an entry of several digits went through
C6_Witness ==
    /\ cpc = "done"
    /\ Len(mat) = 2
    /\ Len(mat[1]) = 2
    /\ mat[1][2] = 120
    /\ mat[2][1] = 7
    /\ back = mat

(***************************************************************************)
(* C7: the text savetxt wrote holds only digits, commas and newlines, ends *)
(* with a newline, has exactly one line per row of the matrix (so no       *)
(* header line), and each line has as many fields as the matrix has        *)
(* columns.                                                                *)
(***************************************************************************)
CsvChars == {"0", "1", "2", "3", "4", "5", "6", "7", "8", "9", ",", "\n"}

C7_WellFormed ==
    cpc \in {"load", "done"} =>
       /\ Range(out) \subseteq CsvChars
       /\ out[Len(out)] = "\n"
       /\ Cardinality({k \in DOMAIN out : out[k] = "\n"}) = Len(mat)
       /\ Len(Lines(out)) = Len(mat)
       /\ \A r \in 1..Len(Lines(out)) :
             Len(SplitOn(Lines(out)[r], ",")) = Len(mat[1])

\* the matrix of distance 3 was written: 8 lines of 18 fields
C7_Witness ==
    /\ cpc = "load"
    /\ Len(mat) = 8
    /\ Len(Lines(out)) = 8
    /\ Len(SplitOn(Lines(out)[8], ",")) = 18

(***************************************************************************)
(* C8: with one task per distance and no synchronisation, no two tasks     *)
(* open or hold open the same path, and once all tasks are done the        *)
(* directory is the one the sequential loop leaves.                        *)
(***************************************************************************)
C8_Independent ==
    /\ \A t, u \in Tasks :
          t # u =>
             /\ Range(EventPaths(t, "open")) \cap Range(EventPaths(u, "open")) = {}
             /\ fh[t] # None => fh[t] # fh[u]
    /\ AllDone => fs = DriverResult(fsAtStart)

\* the seven files are open at the same time
C8_Witness ==
    /\ Cardinality(Tasks) = 7
    /\ \A t \in Tasks : pc[t] = "write"
    /\ Cardinality({fh[t] : t \in Tasks}) = 7

(***************************************************************************)
(* C9: the matrix extracted for a distance d of the driver is not empty    *)
(* and rectangular, with d * d - 1 rows and 2 * d * d columns; for d = 3   *)
(* it has 8 rows.                                                          *)
(***************************************************************************)
C9_Dimensions ==
    \A t \in Tasks :
       pc[t] \in {"open", "write"} =>
          LET m == ArrayOf(a[t])
              d == Cur(t)
          IN /\ Len(m) > 0
             /\ \A r \in 1..Len(m) : Len(m[r]) = Len(m[1])
             /\ Len(m) = d * d - 1
             /\ Len(m[1]) = 2 * d * d
             /\ d = 3 => Len(m) = 8

\* the matrix of distance 3 is about to be written
C9_Witness ==
    \E t \in Tasks :
       /\ pc[t] = "open"
       /\ Cur(t) = 3
       /\ Len(ArrayOf(a[t])) = 8
       /\ Len(ArrayOf(a[t])[8]) = 18

(***************************************************************************)
(* C10: in a run started without the directory pcm_matrices, the driver    *)
(* never creates it and never writes a file: the run stays at its first    *)
(* distance, 3, and aborts there with the error of the failed open.        *)
(***************************************************************************)
C10_MissingDirectory ==
    ~dirAtStart =>
       /\ ~dirExists
       /\ fs = NoFiles
       /\ \A t \in Tasks :
             /\ i[t] = 1
             /\ Cur(t) = 3
             /\ pc[t] \in {"construct", "extract", "open", "aborted"}
             /\ EventPaths(t, "open") = << >>
             /\ pc[t] = "aborted" => err[t] = "FileNotFoundError"

\* the run without the directory has aborted
C10_Witness ==
    /\ ~dirAtStart
    /\ ~dirExists
    /\ fs = NoFiles
    /\ \A t \in Tasks : pc[t] = "aborted" /\ err[t] = "FileNotFoundError"

====
